---- MODULE Spec2Model ----
(***************************************************************************)
(* Model of the two batch-payment scripts of bc1pSendBtc:                  *)
(*   - the taproot (P2TR) script, function batchSend                       *)
(*     (src/unnamed/part_000 lines 99-542), flow = "p2tr";                 *)
(*   - the witness-key-hash (P2WPKH) script, createTransaction and the     *)
(*     main IIFE (src/unnamed/part_000 lines 543-766), flow = "p2wpkh".    *)
(* One run of one script is one behaviour.  Every external call (HTTP,     *)
(* readline, the signature libraries) is a step whose outcome is chosen    *)
(* nondeterministically among the outcomes the call can produce.           *)
(*                                                                         *)
(* Numbers.  Fee rates and the size constants 10.5 / 57.5 are multiples of *)
(* one half, so every such quantity q is stored doubled (name suffix 2):   *)
(* rate2 = 2 * rate, TrBase2 = 2 * 10.5.  Satoshi amounts are integers.    *)
(* The curve secp256k1 is replaced by the curve of the same equation       *)
(* y^2 = x^3 + 7 over the field of CurveP elements, whose group has the    *)
(* prime order CurveN.                                                     *)
(***************************************************************************)
EXTENDS Integers, Sequences, FiniteSets, TLC

\* ------------------------------------------------------------------ bounds
MaxUtxos == 3
MaxRecipients == 2

\* ------------------------------------------------------- program constants
\* dust threshold, part_000:351 and part_000:712
DustThreshold == 546
\* estimateTxVbytes (P2TR), part_000:186-188, doubled
TrBase2 == 21
TrInput2 == 115
TrOutput2 == 86
\* createTransaction (P2WPKH) size estimate, part_000:670-672, doubled
WkhInput2 == 136
WkhOutput2 == 68
WkhBase2 == 21
\* compressed public key prefixes tested at part_000:369
PrefixEven == 2
PrefixOdd == 3

\* a value that is `undefined` in the script (config.feeRate absent)
Undefined == 0 - 1

\* ------------------------------------------------------------ input domains
\* config.feeRate (doubled): absent, or 5 sat/vB
CfgRates2 == {Undefined, 10}
\* rates the recommended-fee service can answer (doubled): 1 and 2.5 sat/vB;
\* 0 stands for a field missing from the answer (falsy in the || chain)
ApiRates2 == {2, 5}
\* satoshi values of the UTXOs the address service can answer for the
\* funding address of each script
TrUtxoValues == {10693, 10700, 20000}
WkhUtxoValues == {10693, 20000, 50000, 100000}
\* amountInSats = floor(config.sendAmountBTC * 1e8)
Amounts == {10000}
\* previous-output scripts the transaction service can answer; "" is a
\* missing output or a missing scriptpubkey field
expectedScriptPubKeyHex == "funding"
ApiScripts == {"funding", "foreign", ""}
\* operator answers at the confirmation prompt, as character sequences
Answers == { <<"Y">>, <<"y">>, <<" ", "y", " ">>, <<"n">>, <<>>, <<"Y", "E", "S">> }

UtxoLists(values) == UNION { [1..n -> values] : n \in 0..MaxUtxos }

\* ------------------------------------------------------------ arithmetic
\* Math.ceil of a doubled quantity
CeilHalf(x2) == (x2 + 1) \div 2

RECURSIVE SumSeq(_)
SumSeq(s) == IF s = << >> THEN 0 ELSE s[1] + SumSeq(Tail(s))

\* part_000:185-190
estimateTxVbytes(inputCount, outputCount) ==
    CeilHalf(TrBase2 + inputCount * TrInput2 + outputCount * TrOutput2)

\* BigInt(x) throws a RangeError when x is not an integer (part_000:263,273):
\* x = vbytes * feeRate, NaN when feeRate is undefined
BigIntThrows(vbytes, rate2) ==
    \/ rate2 = Undefined
    \/ (vbytes * rate2) % 2 # 0

\* BigInt(estimateTxVbytes(n, m) * feeRate) when it does not throw
BigIntFee(vbytes, rate2) == (vbytes * rate2) \div 2

\* part_000:668-674
WkhEstimatedSize(inputCount, outputCount) ==
    CeilHalf(inputCount * WkhInput2 + outputCount * WkhOutput2 + WkhBase2)

WkhEstimatedFee(rate2, estimatedSize) == CeilHalf(rate2 * estimatedSize)

\* ------------------------------------------------------------- key material
\* field and group of the scaled-down curve y^2 = x^3 + 7
CurveP == 13
CurveN == 7
G == <<7, 5>>
Infinity == <<0 - 1, 0 - 1>>

ModP(a) == (a + CurveP * CurveP * CurveP) % CurveP
InvP(a) == CHOOSE k \in 1..(CurveP - 1) : (k * ModP(a)) % CurveP = 1

PointAdd(P, Q) ==
    IF P = Infinity THEN Q
    ELSE IF Q = Infinity THEN P
    ELSE IF P[1] = Q[1] /\ ModP(P[2] + Q[2]) = 0 THEN Infinity
    ELSE LET lam == IF P = Q
                    THEN ModP(3 * P[1] * P[1] * InvP(2 * P[2]))
                    ELSE ModP((Q[2] - P[2]) * InvP(Q[1] - P[1]))
             x3 == ModP(lam * lam - P[1] - Q[1])
             y3 == ModP(lam * (P[1] - x3) - P[2])
         IN <<x3, y3>>

RECURSIVE ScalarMul(_)
ScalarMul(d) == IF d = 0 THEN Infinity ELSE PointAdd(ScalarMul(d - 1), G)

\* secp256k1.utils.isValidPrivateKey, part_000:227
isValidPrivateKey(d) == d \in 1..(CurveN - 1)

\* secp256k1.getPublicKey(d, true): <<prefix byte, x coordinate>>
getPublicKey(d) ==
    LET pt == ScalarMul(d)
    IN <<IF pt[2] % 2 = 0 THEN PrefixEven ELSE PrefixOdd, pt[1]>>

\* .slice(1, 33) of the compressed key, part_000:231
XOnly(compressed) == compressed[2]

\* faulty variant of the parity test of part_000:369: negates the scalar of
\* an even-parity key instead of an odd-parity one
TweakedPrivateKey_WrongParity(d) ==
    IF getPublicKey(d)[1] = PrefixEven THEN (CurveN - d) % CurveN ELSE d

\* part_000:367-384: the scalar handed to schnorr.sign
TweakedPrivateKey(d) ==
    IF getPublicKey(d)[1] = PrefixOdd THEN (CurveN - d) % CurveN ELSE d

\* answer.trim().toUpperCase(), part_000:208
RECURSIVE TrimLeft(_)
TrimLeft(s) == IF s # << >> /\ s[1] = " " THEN TrimLeft(Tail(s)) ELSE s
RECURSIVE TrimRight(_)
TrimRight(s) ==
    IF s # << >> /\ s[Len(s)] = " " THEN TrimRight(SubSeq(s, 1, Len(s) - 1)) ELSE s
UpperChar(c) == IF c = "y" THEN "Y" ELSE IF c = "n" THEN "N" ELSE c
TrimUpper(s) == LET t == TrimRight(TrimLeft(s)) IN [k \in 1..Len(t) |-> UpperChar(t[k])]

\* ------------------------------------------------------------------- state
VARIABLES
    flow,             \* which script runs: "p2tr" or "p2wpkh"
    pc,               \* position of the run in its script
    cfgFeeRate,       \* config.feeRate (doubled) or Undefined
    nAddresses,       \* addresses.length
    amountInSats,     \* payout per recipient
    privateKey,       \* scalar decoded from config.privateKey (0: invalid WIF)
    feeRate,          \* const feeRate (doubled) or Undefined
    pubkey,           \* x-only public key, p2tr only
    privateKeyToUse,  \* scalar handed to schnorr.sign, p2tr only
    utxos,            \* values of the fetched UTXOs, in arrival order
    selectedUtxos,    \* p2tr: indexes into utxos pushed by the selection loop
    totalInput,       \* totalInput (p2tr) / inputAmount (p2wpkh)
    estimatedFee,     \* estimatedFee / finalFee
    inputs,           \* psbt.data.inputs
    outputs,          \* psbt outputs (txOutputs)
    changeValue,      \* changeValue / changeAmount
    i,                \* index of the loop in progress (1-based)
    sigsProduced,     \* signatures returned by schnorr.sign / signInput
    txHex,            \* TRUE once finalizeAllInputs and extractTransaction returned
    answer,           \* trimmed, upper-cased prompt answer
    calls,            \* number of invocations of each external HTTP call
    failures,         \* number of those invocations that failed
    rlClosed,         \* rl.close() has run
    err,              \* kind of the error that ended the run, "none" otherwise
    report            \* <<required, available>> printed with the error, or << >>

cfgVars == <<flow, cfgFeeRate, nAddresses, amountInSats, privateKey>>
keyVars == <<pubkey, privateKeyToUse>>
selVars == <<utxos, selectedUtxos, totalInput, estimatedFee>>
txVars == <<inputs, outputs, changeValue, sigsProduced, txHex>>
endVars == <<answer, rlClosed, err, report>>
vars == <<cfgVars, pc, feeRate, keyVars, selVars, txVars, i, calls, failures, endVars>>

NoCalls == [c \in {"utxo", "fee", "tx", "broadcast"} |-> 0]
Called(c) == [calls EXCEPT ![c] = @ + 1]
\* the call c returned (ok) or failed: axios rejected, the catch block ran
Outcome(c, ok) == IF ok THEN failures ELSE [failures EXCEPT ![c] = @ + 1]

\* totalAmountToSend (part_000:260) / totalAddressesAmount (part_000:689)
TotalPayout == amountInSats * nAddresses

Init ==
    /\ flow \in {"p2tr", "p2wpkh"}
    /\ pc = IF flow = "p2tr" THEN "getFeeRate" ELSE "w_key"
    /\ cfgFeeRate \in CfgRates2
    /\ nAddresses \in 1..MaxRecipients
    /\ amountInSats \in Amounts
    /\ privateKey \in IF flow = "p2tr" THEN 0..(CurveN - 1) ELSE {0, 1}
    /\ feeRate = Undefined
    /\ pubkey = Undefined
    /\ privateKeyToUse = Undefined
    /\ utxos = << >>
    /\ selectedUtxos = << >>
    /\ totalInput = 0
    /\ estimatedFee = 0
    /\ inputs = << >>
    /\ outputs = << >>
    /\ changeValue = 0
    /\ i = 1
    /\ sigsProduced = 0
    /\ txHex = FALSE
    /\ answer = << >>
    /\ calls = NoCalls
    /\ failures = NoCalls
    /\ rlClosed = FALSE
    /\ err = "none"
    /\ report = << >>

\* The run ends with error `kind`.  In batchSend every return and every
\* caught exception passes the finally block, which closes readline
\* (part_000:529-533); the main IIFE only logs (part_000:763-765).
Fail(kind, rep) ==
    /\ pc' = "done"
    /\ err' = kind
    /\ report' = rep
    /\ rlClosed' = (flow = "p2tr")
    /\ UNCHANGED answer

Continue(next) ==
    /\ pc' = next
    /\ UNCHANGED endVars

\* psbt.addInput record, part_000:311-320 and part_000:642-650
NewInput(idx, script) ==
    [idx |-> idx, value |-> utxos[idx], script |-> script,
     signed |-> FALSE, verified |-> "none",
     sighashScripts |-> << >>, sighashValues |-> << >>]

\* faulty variant of the output loop: the recipient list is walked backwards
RecipientOutputs_Reversed ==
    [k \in 1..nAddresses |->
        [to |-> "recipient", index |-> nAddresses + 1 - k, value |-> amountInSats]]

\* addresses.forEach(psbt.addOutput), part_000:331-336 and part_000:703-708
RecipientOutputs ==
    [k \in 1..nAddresses |-> [to |-> "recipient", index |-> k, value |-> amountInSats]]

ChangeOutput(v) == [to |-> "funding", index |-> 0, value |-> v]

\* ============================================================ taproot flow
\* getFeeRate, part_000:162-171: ok is the outcome of the HTTP call,
\* half and fastest the fields of its answer (0: field missing)
TrGetFeeRate(ok, half, fastest, cfg) ==
    IF ok
    THEN IF half # 0 THEN half ELSE IF fastest # 0 THEN fastest ELSE cfg
    ELSE cfg

\* part_000:215
T_GetFeeRate ==
    /\ flow = "p2tr" /\ pc = "getFeeRate"
    /\ \E ok \in BOOLEAN, half \in ApiRates2 \cup {0}, fastest \in ApiRates2 \cup {0} :
           /\ failures' = Outcome("fee", ok)
           /\ feeRate' = TrGetFeeRate(ok, half, fastest, cfgFeeRate)
    /\ calls' = Called("fee")
    /\ Continue("initKey")
    /\ UNCHANGED <<cfgVars, keyVars, selVars, txVars, i>>

\* part_000:219-237
T_InitKey ==
    /\ flow = "p2tr" /\ pc = "initKey"
    /\ IF isValidPrivateKey(privateKey)
       THEN /\ pubkey' = XOnly(getPublicKey(privateKey))
            /\ Continue("getUtxos")
       ELSE /\ Fail("InvalidKey", << >>)
            /\ UNCHANGED pubkey
    /\ UNCHANGED <<cfgVars, feeRate, privateKeyToUse, selVars, txVars, i, calls, failures>>

\* part_000:251-255 with getUtxos, part_000:134-142
T_GetUtxos ==
    /\ flow = "p2tr" /\ pc = "getUtxos"
    /\ calls' = Called("utxo")
    /\ \E ok \in BOOLEAN, data \in UtxoLists(TrUtxoValues) :
           /\ failures' = Outcome("utxo", ok)
           /\ IF ~ok THEN Fail("FetchError", << >>) /\ UNCHANGED utxos
              ELSE IF Len(data) = 0 THEN Fail("NoUtxo", << >>) /\ utxos' = data
              ELSE Continue("select") /\ utxos' = data
    /\ UNCHANGED <<cfgVars, feeRate, keyVars, selectedUtxos, totalInput, estimatedFee,
                   txVars, i>>

\* the selection loop, part_000:270-279, from the state st on
RECURSIVE SelectLoop(_, _, _, _, _)
SelectLoop(us, st, payout, rate2, outputCount) ==
    LET k == Len(st.selected) + 1 IN
    IF k > Len(us) \/ st.threw \/ st.stopped THEN st
    ELSE LET sel == Append(st.selected, k)
             tin == st.totalInput + us[k]
             vb == estimateTxVbytes(Len(sel), outputCount)
         IN IF BigIntThrows(vb, rate2)
            THEN [st EXCEPT !.selected = sel, !.totalInput = tin, !.threw = TRUE]
            ELSE SelectLoop(us,
                     [selected |-> sel, totalInput |-> tin,
                      estimatedFee |-> BigIntFee(vb, rate2), threw |-> FALSE,
                      stopped |-> tin >= payout + BigIntFee(vb, rate2)],
                     payout, rate2, outputCount)

\* part_000:258-279: initialEstimatedFee (line 263) throws before the loop runs
SelectUtxos(us, payout, rate2, outputCount) ==
    LET st0 == [selected |-> << >>, totalInput |-> 0, estimatedFee |-> 0,
                threw |-> FALSE, stopped |-> FALSE]
    IN IF BigIntThrows(estimateTxVbytes(1, outputCount), rate2)
       THEN [st0 EXCEPT !.threw = TRUE]
       ELSE SelectLoop(us, st0, payout, rate2, outputCount)

\* faulty variant of the balance check of part_000:281: the fee is left out
TrInsufficient_NoFee(total, payout, fee) == total < payout

\* part_000:281: the balance check after the selection loop
TrInsufficient(total, payout, fee) == total < payout + fee

\* part_000:257-284
T_Select ==
    /\ flow = "p2tr" /\ pc = "select"
    /\ LET st == SelectUtxos(utxos, TotalPayout, feeRate, nAddresses + 1) IN
       /\ selectedUtxos' = st.selected
       /\ totalInput' = st.totalInput
       /\ estimatedFee' = st.estimatedFee
       /\ IF st.threw THEN Fail("RangeError", << >>)
          ELSE IF TrInsufficient(st.totalInput, TotalPayout, st.estimatedFee)
          THEN Fail("InsufficientFunds", <<TotalPayout + st.estimatedFee, st.totalInput>>)
          ELSE Continue("addInputs")
    /\ i' = 1
    /\ UNCHANGED <<cfgVars, feeRate, keyVars, utxos, txVars, calls, failures>>

\* one iteration of the loop at part_000:288-327, with getUtxoDetails
T_AddInput ==
    /\ flow = "p2tr" /\ pc = "addInputs" /\ i <= Len(selectedUtxos)
    /\ calls' = Called("tx")
    /\ \E ok \in BOOLEAN, script \in ApiScripts :
           /\ failures' = Outcome("tx", ok)
           /\ IF ~ok THEN Fail("FetchError", << >>) /\ UNCHANGED <<inputs, i>>
              ELSE IF script = "" THEN Fail("ScriptMissing", << >>) /\ UNCHANGED <<inputs, i>>
              ELSE IF script # expectedScriptPubKeyHex
              THEN Fail("ScriptMismatch", << >>) /\ UNCHANGED <<inputs, i>>
              ELSE /\ inputs' = Append(inputs, NewInput(selectedUtxos[i], script))
                   /\ i' = i + 1
                   /\ Continue(IF i = Len(selectedUtxos) THEN "outputs" ELSE "addInputs")
    /\ UNCHANGED <<cfgVars, feeRate, keyVars, selVars, outputs, changeValue,
                   sigsProduced, txHex>>

\* faulty variant of the dust test of part_000:351: any positive change
\* gets an output
TrAddsChange_NoDust(change) == change > 0

\* part_000:351: is a change output added for this changeValue
TrAddsChange(change) == change >= DustThreshold

\* part_000:329-359
T_BuildOutputs ==
    /\ flow = "p2tr" /\ pc = "outputs"
    /\ LET change == totalInput - TotalPayout - estimatedFee IN
       /\ changeValue' = change
       /\ IF change < 0
          THEN /\ outputs' = RecipientOutputs
               /\ Fail("ArithmeticFault", << >>)
          ELSE /\ outputs' = IF TrAddsChange(change)
                             THEN Append(RecipientOutputs, ChangeOutput(change))
                             ELSE RecipientOutputs
               /\ Continue("tweak")
    /\ UNCHANGED <<cfgVars, feeRate, keyVars, selVars, inputs, sigsProduced, txHex,
                   i, calls, failures>>

\* part_000:366-385
T_TweakKey ==
    /\ flow = "p2tr" /\ pc = "tweak"
    /\ privateKeyToUse' = TweakedPrivateKey(privateKey)
    /\ i' = 1
    /\ Continue("sign")
    /\ UNCHANGED <<cfgVars, feeRate, pubkey, selVars, txVars, calls, failures>>

\* part_000:393-407: the script and value lists handed to hashForWitnessV1
\* for input k: prevoutScripts[k] and prevoutValues[k], each wrapped in a
\* one-element array
SighashScripts(k) ==
    LET prevoutScripts == [j \in 1..Len(selectedUtxos) |-> inputs[k].script]
    IN <<prevoutScripts[k]>>

SighashValues(k) ==
    LET prevoutValues == [j \in 1..Len(selectedUtxos) |-> inputs[k].value]
    IN <<prevoutValues[k]>>

\* tx.hashForWitnessV1 (bitcoinjs-lib), called at part_000:404-410, rejects
\* script and value lists that do not have one entry per input of the
\* transaction ("Must supply prevout script and value for all inputs")
HashForWitnessV1Rejects(scripts, values) ==
    Len(scripts) # Len(inputs) \/ Len(values) # Len(inputs)

\* part_000:433: does the run go on after schnorr.verify returned isValid
TrAcceptsSignature(isValid) == isValid

\* one iteration of the loop at part_000:390-465.  outcome is what the
\* library calls do: hashForWitnessV1 throws, schnorr.sign throws,
\* schnorr.verify throws, or verify returns isValid
T_SignInput ==
    /\ flow = "p2tr" /\ pc = "sign" /\ i <= Len(inputs)
    /\ \E outcome \in {"hashError", "signError", "verifyError", "verified"},
          isValid \in BOOLEAN :
        LET hashed == [inputs EXCEPT ![i].sighashScripts = SighashScripts(i),
                                     ![i].sighashValues = SighashValues(i)]
        IN
        IF \/ outcome \in {"hashError", "signError"}
           \/ HashForWitnessV1Rejects(SighashScripts(i), SighashValues(i))
        THEN /\ inputs' = hashed
             /\ Fail("SignError", << >>)
             /\ UNCHANGED <<sigsProduced, i>>
        ELSE IF outcome = "verifyError"
        THEN /\ inputs' = hashed
             /\ sigsProduced' = sigsProduced + 1
             /\ Fail("SignError", << >>)
             /\ UNCHANGED i
        ELSE IF ~TrAcceptsSignature(isValid)
        THEN /\ inputs' = [hashed EXCEPT ![i].verified = "false"]
             /\ sigsProduced' = sigsProduced + 1
             /\ Fail("SignatureInvalid", << >>)
             /\ UNCHANGED i
        ELSE /\ inputs' = [hashed EXCEPT
                              ![i].verified = IF isValid THEN "true" ELSE "false",
                              ![i].signed = TRUE]
             /\ sigsProduced' = sigsProduced + 1
             /\ i' = i + 1
             /\ Continue(IF i = Len(inputs) THEN "finalize" ELSE "sign")
    /\ UNCHANGED <<cfgVars, feeRate, keyVars, selVars, outputs, changeValue, txHex, calls, failures>>

\* psbt.finalizeAllInputs(): an input without a signature cannot be finalized
CanFinalize == \A k \in 1..Len(inputs) : inputs[k].signed

\* part_000:479-501
T_Finalize ==
    /\ flow = "p2tr" /\ pc = "finalize"
    /\ \E ok \in BOOLEAN :
           IF ok /\ CanFinalize
           THEN txHex' = TRUE /\ Continue("confirm")
           ELSE UNCHANGED txHex /\ Fail("FinalizeError", << >>)
    /\ UNCHANGED <<cfgVars, feeRate, keyVars, selVars, inputs, outputs, changeValue,
                   sigsProduced, i, calls, failures>>

\* faulty variant of the test of part_000:506: anything but N confirms
Confirms_AnyButNo(ans) == ans # <<"N">>

\* part_000:506: is the normalised answer a confirmation
Confirms(ans) == ans = <<"Y">>

\* part_000:504-527 with confirmBroadcast, part_000:205-211
T_Confirm ==
    /\ flow = "p2tr" /\ pc = "confirm"
    /\ \E raw \in Answers :
        /\ answer' = TrimUpper(raw)
        /\ IF Confirms(TrimUpper(raw))
           THEN pc' = "broadcast" /\ UNCHANGED <<rlClosed, err, report>>
           ELSE pc' = "done" /\ rlClosed' = TRUE /\ UNCHANGED <<err, report>>
    /\ UNCHANGED <<cfgVars, feeRate, keyVars, selVars, txVars, i, calls, failures>>

\* faulty variant of part_000:507-524: a failed broadcastTx is issued once more
T_Broadcast_Retries ==
    /\ flow = "p2tr" /\ pc = "broadcast"
    /\ calls' = Called("broadcast")
    /\ \E ok \in BOOLEAN :
           /\ failures' = Outcome("broadcast", ok)
           /\ IF ok \/ calls["broadcast"] >= 1
              THEN /\ err' = IF ok THEN "none" ELSE "BroadcastError"
                   /\ pc' = "done"
                   /\ rlClosed' = TRUE
              ELSE UNCHANGED <<pc, err, rlClosed>>
           /\ UNCHANGED <<answer, report>>
    /\ UNCHANGED <<cfgVars, feeRate, keyVars, selVars, txVars, i>>

\* part_000:507-524 with broadcastTx, part_000:173-182
T_Broadcast ==
    /\ flow = "p2tr" /\ pc = "broadcast"
    /\ calls' = Called("broadcast")
    /\ \E ok \in BOOLEAN :
           /\ failures' = Outcome("broadcast", ok)
           /\ err' = IF ok THEN "none" ELSE "BroadcastError"
           /\ pc' = "done"
           /\ rlClosed' = TRUE
           /\ UNCHANGED <<answer, report>>
    /\ UNCHANGED <<cfgVars, feeRate, keyVars, selVars, txVars, i>>

\* =================================================== witness-key-hash flow
\* ECPair.fromWIF, part_000:609 (called from the main IIFE, part_000:757)
W_Start ==
    /\ flow = "p2wpkh" /\ pc = "w_key"
    /\ IF privateKey = 0 THEN Fail("InvalidKey", << >>) ELSE Continue("w_getUTXOs")
    /\ UNCHANGED <<cfgVars, feeRate, keyVars, selVars, txVars, i, calls, failures>>

\* part_000:616-620 with getUTXOs, part_000:562-572
W_GetUTXOs ==
    /\ flow = "p2wpkh" /\ pc = "w_getUTXOs"
    /\ calls' = Called("utxo")
    /\ \E ok \in BOOLEAN, data \in UtxoLists(WkhUtxoValues) :
           /\ failures' = Outcome("utxo", ok)
           /\ IF ~ok THEN Fail("FetchError", << >>) /\ UNCHANGED utxos
              ELSE IF Len(data) = 0 THEN Fail("NoUtxo", << >>) /\ utxos' = data
              ELSE Continue("w_getFeeRate") /\ utxos' = data
    /\ UNCHANGED <<cfgVars, feeRate, keyVars, selectedUtxos, totalInput, estimatedFee,
                   txVars, i>>

\* part_000:577: the configured rate is a positive number
WkhConfigRateValid(cfg) == cfg # Undefined /\ cfg > 0

\* part_000:622 with getFeeRate, part_000:575-592
W_GetFeeRate ==
    /\ flow = "p2wpkh" /\ pc = "w_getFeeRate"
    /\ IF WkhConfigRateValid(cfgFeeRate)
       THEN /\ feeRate' = cfgFeeRate
            /\ Continue("w_addInputs")
            /\ UNCHANGED <<calls, failures>>
       ELSE /\ calls' = Called("fee")
            /\ \E ok \in BOOLEAN, fastest \in ApiRates2 :
                   /\ failures' = Outcome("fee", ok)
                   /\ IF ok THEN feeRate' = fastest /\ Continue("w_addInputs")
                      ELSE UNCHANGED feeRate /\ Fail("NoFeeRate", << >>)
    /\ i' = 1
    /\ UNCHANGED <<cfgVars, keyVars, selVars, txVars>>

\* one iteration of the loop at part_000:629-652, with getTxDetails
W_AddInput ==
    /\ flow = "p2wpkh" /\ pc = "w_addInputs" /\ i <= Len(utxos)
    /\ calls' = Called("tx")
    /\ \E ok \in BOOLEAN, script \in ApiScripts :
           /\ failures' = Outcome("tx", ok)
           /\ IF ~ok
              THEN Fail("FetchError", << >>) /\ UNCHANGED <<inputs, totalInput, i>>
              ELSE /\ IF script = ""
                      THEN UNCHANGED <<inputs, totalInput>>
                      ELSE /\ inputs' = Append(inputs, NewInput(i, script))
                           /\ totalInput' = totalInput + utxos[i]
                   /\ i' = i + 1
                   /\ Continue(IF i = Len(utxos) THEN "w_build" ELSE "w_addInputs")
    /\ UNCHANGED <<cfgVars, feeRate, keyVars, utxos, selectedUtxos, estimatedFee,
                   outputs, changeValue, sigsProduced, txHex>>

\* part_000:668: the input count the fee is estimated for
WkhFeeInputCount == Len(utxos)

\* part_000:712: is a change output added for this changeAmount
WkhAddsChange(change) == change > DustThreshold

\* part_000:694: the balance check
WkhInsufficient(total, payout, fee) == total < payout + fee

\* part_000:654-718
W_Build ==
    /\ flow = "p2wpkh" /\ pc = "w_build"
    /\ IF Len(inputs) = 0
       THEN /\ Fail("NoValidInputs", << >>)
            /\ UNCHANGED <<estimatedFee, outputs, changeValue>>
       ELSE LET fee == WkhEstimatedFee(feeRate,
                           WkhEstimatedSize(WkhFeeInputCount, nAddresses + 1))
                change == totalInput - TotalPayout - fee
            IN /\ estimatedFee' = fee
               /\ IF WkhInsufficient(totalInput, TotalPayout, fee)
                  THEN /\ Fail("InsufficientFunds", <<TotalPayout + fee, totalInput>>)
                       /\ UNCHANGED <<outputs, changeValue>>
                  ELSE /\ changeValue' = change
                       /\ outputs' = IF WkhAddsChange(change)
                                     THEN Append(RecipientOutputs, ChangeOutput(change))
                                     ELSE RecipientOutputs
                       /\ Continue("w_sign")
    /\ i' = 1
    /\ UNCHANGED <<cfgVars, feeRate, keyVars, utxos, selectedUtxos, totalInput, inputs,
                   sigsProduced, txHex, calls, failures>>

\* psbt.signInput (bitcoinjs-lib), called at part_000:722, refuses an input
\* whose previous script does not commit to the key pair's public key
\* ("Can not sign for this input with the key ...")
SignInputRejects(script) == script # expectedScriptPubKeyHex

\* faulty variant of the loop test of part_000:721: the last input is left out
WkhSigningDone_OneShort(next) == next > Len(inputs) - 1

\* part_000:721: the loop ends when the next index (1-based) is past the inputs
WkhSigningDone(next) == next > Len(inputs)

\* one iteration of the loop at part_000:721-723; psbt.signInput returns or throws
W_SignInput ==
    /\ flow = "p2wpkh" /\ pc = "w_sign" /\ i <= Len(inputs)
    /\ \E ok \in BOOLEAN :
           IF ok /\ ~SignInputRejects(inputs[i].script)
           THEN /\ inputs' = [inputs EXCEPT ![i].signed = TRUE]
                /\ sigsProduced' = sigsProduced + 1
                /\ i' = i + 1
                /\ Continue(IF WkhSigningDone(i + 1) THEN "w_validate" ELSE "w_sign")
           ELSE /\ Fail("SignError", << >>)
                /\ UNCHANGED <<inputs, sigsProduced, i>>
    /\ UNCHANGED <<cfgVars, feeRate, keyVars, selVars, outputs, changeValue, txHex, calls, failures>>

\* part_000:730: does the run go on after validateSignaturesOfAllInputs
\* returned allValid (the returned boolean is not read)
WkhAcceptsValidation(allValid) == TRUE

\* part_000:726-730: the validator (ecc.verify) answers res[k] for input k
W_Validate ==
    /\ flow = "p2wpkh" /\ pc = "w_validate"
    /\ \E res \in [1..Len(inputs) -> BOOLEAN] :
        /\ inputs' = [k \in 1..Len(inputs) |->
                        [inputs[k] EXCEPT !.verified = IF res[k] THEN "true" ELSE "false"]]
        /\ IF WkhAcceptsValidation(\A k \in 1..Len(inputs) : res[k])
           THEN Continue("w_finalize")
           ELSE Fail("SignatureInvalid", << >>)
    /\ UNCHANGED <<cfgVars, feeRate, keyVars, selVars, outputs, changeValue,
                   sigsProduced, txHex, i, calls, failures>>

\* part_000:733-737
W_Finalize ==
    /\ flow = "p2wpkh" /\ pc = "w_finalize"
    /\ \E ok \in BOOLEAN :
           IF ok /\ CanFinalize
           THEN txHex' = TRUE /\ Continue("w_broadcast")
           ELSE UNCHANGED txHex /\ Fail("FinalizeError", << >>)
    /\ UNCHANGED <<cfgVars, feeRate, keyVars, selVars, inputs, outputs, changeValue,
                   sigsProduced, i, calls, failures>>

\* part_000:761 with broadcastTransaction, part_000:741-751
W_Broadcast ==
    /\ flow = "p2wpkh" /\ pc = "w_broadcast"
    /\ calls' = Called("broadcast")
    /\ \E ok \in BOOLEAN :
           /\ failures' = Outcome("broadcast", ok)
           /\ err' = IF ok THEN "none" ELSE "BroadcastError"
           /\ pc' = "done"
           /\ UNCHANGED <<answer, rlClosed, report>>
    /\ UNCHANGED <<cfgVars, feeRate, keyVars, selVars, txVars, i>>

\* ============================================================ specification
Next ==
    \/ T_GetFeeRate \/ T_InitKey \/ T_GetUtxos \/ T_Select \/ T_AddInput
    \/ T_BuildOutputs \/ T_TweakKey \/ T_SignInput \/ T_Finalize \/ T_Confirm
    \/ T_Broadcast
    \/ W_Start \/ W_GetUTXOs \/ W_GetFeeRate \/ W_AddInput \/ W_Build
    \/ W_SignInput \/ W_Validate \/ W_Finalize \/ W_Broadcast

Spec == Init /\ [][Next]_vars

\* ================================================================ claims
\* ------------------------------------------------- derived state functions
InputValues == [k \in 1..Len(inputs) |-> inputs[k].value]
InputSum == SumSeq(InputValues)
OutputSum == SumSeq([k \in 1..Len(outputs) |-> outputs[k].value])
HasChange == \E k \in 1..Len(outputs) : outputs[k].to = "funding"
\* the recipient outputs were added and the change was computed without fault
Built == outputs # << >> /\ err # "ArithmeticFault"
BroadcastInvoked == calls["broadcast"] > 0
AllVerified ==
    \A k \in 1..Len(inputs) : inputs[k].signed /\ inputs[k].verified = "true"

\* C1 (as claimed): broadcast is invoked only when every input carries a
\* signature whose verification returned true, and a verification that
\* returns false ends the run before finalization and before broadcast.
C1_BroadcastOnlyVerified ==
    /\ (BroadcastInvoked \/ pc \in {"broadcast", "w_broadcast"}) => AllVerified
    /\ (\E k \in 1..Len(inputs) : inputs[k].verified = "false")
           => (pc = "done" /\ ~txHex /\ ~BroadcastInvoked)

\* ------------------------------------------------------------------- C2
\* the UTXO indexes the run spends: selectedUtxos (p2tr), the inputs (p2wpkh)
Selected ==
    IF flow = "p2tr" THEN selectedUtxos ELSE [k \in 1..Len(inputs) |-> inputs[k].idx]
SelectionSucceeded ==
    IF flow = "p2tr"
    THEN selectedUtxos # << >> /\ err \notin {"RangeError", "InsufficientFunds"}
    ELSE outputs # << >>
\* the fee each flow estimates for n inputs at the rate of the run
FeeEstimate(n) ==
    IF flow = "p2tr"
    THEN BigIntFee(estimateTxVbytes(n, nAddresses + 1), feeRate)
    ELSE WkhEstimatedFee(feeRate, WkhEstimatedSize(n, nAddresses + 1))
PrefixSum(n) == SumSeq(SubSeq(utxos, 1, n))

\* C2 (as claimed): when selection succeeds the selected UTXOs are a prefix
\* of the candidate list whose sum covers payout plus the fee for its own
\* input count, and no strict prefix of the selection does.
C2_GreedyMinimalPrefix ==
    SelectionSucceeded =>
        LET n == Len(Selected) IN
        /\ \A k \in 1..n : Selected[k] = k
        /\ PrefixSum(n) >= TotalPayout + FeeEstimate(n)
        /\ \A j \in 0..(n - 1) : PrefixSum(j) < TotalPayout + FeeEstimate(j)

\* ------------------------------------------------------------------- C3
\* C3 (as claimed): for a built transaction change >= 0, and when
\* change < 546 there is no change output and outputs + fee == totalInput.
C3_Original ==
    Built =>
        /\ changeValue = InputSum - TotalPayout - estimatedFee
        /\ changeValue >= 0
        /\ changeValue < DustThreshold
               => (~HasChange /\ OutputSum + estimatedFee = InputSum)

\* C3 (amended): for a built transaction change = totalInput - totalPayout
\* - fee is >= 0; when change < 546 there is no change output and
\* outputs + fee + change == totalInput (the unspent change is paid on top
\* of fee); outputs + fee == totalInput holds when a change output exists
\* or change == 0.
C3_ChangeAccounting ==
    Built =>
        /\ changeValue = InputSum - TotalPayout - estimatedFee
        /\ changeValue >= 0
        /\ changeValue < DustThreshold
               => (~HasChange /\ OutputSum + estimatedFee + changeValue = InputSum)
        /\ (HasChange \/ changeValue = 0) => OutputSum + estimatedFee = InputSum

\* a built transaction whose change, between 1 and 545, has no output
C3_Witness ==
    /\ Built /\ pc = "done" /\ BroadcastInvoked
    /\ changeValue > 0 /\ changeValue < DustThreshold /\ ~HasChange

\* ------------------------------------------------------------------- C4
\* C4 (as claimed): a change output to the funding address exists if and
\* only if change >= 546.
C4_ChangeIffAtLeastDust ==
    Built =>
        /\ HasChange <=> changeValue >= DustThreshold
        /\ HasChange => outputs[Len(outputs)] = ChangeOutput(changeValue)

\* ------------------------------------------------------------------- C5
\* C5 (as claimed): a UTXO whose fetched previous-output script differs from
\* the funding script is never added as an input, and the run that met one
\* aborts with no signature produced and nothing broadcast.
C5_MismatchRejected ==
    /\ \A k \in 1..Len(inputs) : inputs[k].script = expectedScriptPubKeyHex
    /\ err = "ScriptMismatch"
           => (pc = "done" /\ sigsProduced = 0 /\ ~BroadcastInvoked /\ ~txHex)

\* ------------------------------------------------------------------- C6
\* every candidate was taken into the sum and the sum is below payout plus
\* the fee for that many inputs, once the balance check has run
ExhaustedShort ==
    /\ utxos # << >>
    /\ IF flow = "p2tr"
       THEN /\ pc # "select"
            /\ Len(selectedUtxos) = Len(utxos)
            /\ err # "RangeError"
       ELSE /\ pc \notin {"w_addInputs", "w_build"}
            /\ calls["tx"] = Len(utxos)
            /\ err # "FetchError"
    /\ totalInput < TotalPayout + FeeEstimate(Len(utxos))
NothingBuilt == outputs = << >> /\ sigsProduced = 0 /\ ~txHex /\ ~BroadcastInvoked
ReportsTotals ==
    /\ err = "InsufficientFunds"
    /\ report = <<TotalPayout + FeeEstimate(Len(utxos)), totalInput>>

FeeStepDone ==
    IF flow = "p2tr" THEN pc # "getFeeRate"
    ELSE /\ pc \notin {"w_key", "w_getUTXOs", "w_getFeeRate"}
         /\ pc = "done" => (calls["fee"] > 0 \/ feeRate # Undefined)

\* C7 (as claimed): a positive numeric configured rate is the rate of the
\* run; otherwise the recommended rate is fetched; the run fails for want of
\* a rate only when the configuration holds none.
C7_RatePrecedence ==
    /\ (FeeStepDone /\ WkhConfigRateValid(cfgFeeRate)) => feeRate = cfgFeeRate
    /\ (FeeStepDone /\ ~WkhConfigRateValid(cfgFeeRate)) => calls["fee"] = 1
    /\ err = "NoFeeRate" => ~WkhConfigRateValid(cfgFeeRate)

\* ------------------------------------------------------------------- C8
\* C8 (as claimed): witness-key-hash flow, UTXOs 100000, 50000, 20000,
\* two recipients of 10000, 5 sat/vB: the built transaction has exactly one
\* input, the 100000 one, one change output of 100000 - 20000 - fee, fee > 0.
C8_ScenarioOneInput ==
    ( /\ flow = "p2wpkh" /\ Built
      /\ utxos = <<100000, 50000, 20000>>
      /\ nAddresses = 2 /\ amountInSats = 10000 /\ feeRate = 10 )
    => /\ InputValues = <<100000>>
       /\ estimatedFee > 0
       /\ Len(outputs) = 3
       /\ outputs[3] = ChangeOutput(100000 - 20000 - estimatedFee)

\* ------------------------------------------------------------------- C9
\* the fee of the run has been computed, for FeeInputCount inputs
FeeComputed ==
    IF flow = "p2tr" THEN selectedUtxos # << >> /\ err # "RangeError"
    ELSE outputs # << >> \/ err = "InsufficientFunds"
FeeInputCount == IF flow = "p2tr" THEN Len(selectedUtxos) ELSE Len(utxos)
VirtualSize(n, m) ==
    IF flow = "p2tr" THEN estimateTxVbytes(n, m) ELSE WkhEstimatedSize(n, m)

\* C9 (as claimed): for every positive rate, integer or not, the fee is
\* ceil(rate * ceil(base + inputs * perInput + outputs * perOutput)) and
\* computing it never aborts the run.
C9_FeeIsCeilAndNeverAborts ==
    /\ FeeComputed =>
           estimatedFee = CeilHalf(feeRate * VirtualSize(FeeInputCount, nAddresses + 1))
    /\ err = "RangeError" => ~(feeRate > 0)

\* ------------------------------------------------------------------ C10
\* C10: in the taproot flow the scalar used for signing is N - d when the
\* public key of d has odd y (and then differs from d), d itself when it has
\* even y; its public key has even y and the x-coordinate of the x-only key
\* the signatures are verified against.
C10_SigningScalarParity ==
    (flow = "p2tr" /\ privateKeyToUse # Undefined) =>
        /\ getPublicKey(privateKey)[1] = PrefixOdd
               => /\ privateKeyToUse = (CurveN - privateKey) % CurveN
                  /\ privateKeyToUse # privateKey
        /\ getPublicKey(privateKey)[1] = PrefixEven => privateKeyToUse = privateKey
        /\ isValidPrivateKey(privateKeyToUse)
        /\ getPublicKey(privateKeyToUse) = <<PrefixEven, pubkey>>

\* a run whose key has odd y-parity signed an input with the negated scalar
C10_Witness ==
    /\ flow = "p2tr" /\ sigsProduced > 0
    /\ getPublicKey(privateKey)[1] = PrefixOdd
    /\ privateKeyToUse # privateKey

\* ---------------------------------------------------------------- C11
\* the external calls whose failure ends the run
AbortingCalls == {"utxo", "tx", "broadcast"}

RunEnded == pc = "done"

\* C11: in both flows a failed UTXO fetch, previous-output lookup or
\* broadcast ends the run with a reported error, the failed call was issued
\* once and is the last external call of the run (nothing is broadcast after
\* it, it is not issued again); a run that goes on after a failed call had
\* its recommended-fee-rate fetch fail and uses the configured rate
C11_FailedCallAborts ==
    /\ \A c \in AbortingCalls :
           failures[c] > 0 =>
               /\ RunEnded
               /\ err = IF c = "broadcast" THEN "BroadcastError" ELSE "FetchError"
               /\ failures[c] = 1
               /\ \A d \in AbortingCalls \ {c} : failures[d] = 0
               /\ calls["broadcast"] = IF c = "broadcast" THEN 1 ELSE 0
               /\ c = "utxo" => calls["utxo"] = 1 /\ calls["tx"] = 0
               /\ c = "tx" => calls["tx"] = i
    /\ failures["fee"] > 0 =>
           /\ failures["fee"] = 1 /\ calls["fee"] = 1
           /\ IF flow = "p2tr" THEN feeRate = cfgFeeRate
              ELSE RunEnded /\ err = "NoFeeRate" /\ ~BroadcastInvoked
    /\ (~RunEnded /\ \E c \in DOMAIN failures : failures[c] > 0) =>
           /\ \A c \in AbortingCalls : failures[c] = 0
           /\ feeRate = cfgFeeRate

\* a taproot run went on after its fee-rate fetch failed, and ended when the
\* previous-output lookup of its second input failed
C11_Witness ==
    /\ flow = "p2tr" /\ RunEnded /\ err = "FetchError"
    /\ failures["fee"] = 1 /\ failures["tx"] = 1 /\ calls["tx"] = 2
    /\ Len(inputs) = 1 /\ ~BroadcastInvoked

\* ---------------------------------------------------------------- C12
\* C12: in both flows, once the outputs of a transaction are built, output k
\* pays recipient k of the list the fixed payout amount, for every k of the
\* recipient list; there is at most one more output, and it is the last one,
\* pays the funding address and carries the change; there are no others
C12_OutputsFollowRecipients ==
    outputs # << >> =>
        /\ Len(outputs) \in {nAddresses, nAddresses + 1}
        /\ \A k \in 1..nAddresses :
               outputs[k] = [to |-> "recipient", index |-> k, value |-> amountInSats]
        /\ Len(outputs) = nAddresses + 1 =>
               /\ outputs[nAddresses + 1].to = "funding"
               /\ outputs[nAddresses + 1].value = changeValue
               /\ changeValue > 0

\* a finalized transaction paying two recipients with a change output last
C12_Witness ==
    /\ txHex /\ nAddresses = 2 /\ Len(outputs) = 3
    /\ outputs[1].index = 1 /\ outputs[2].index = 2 /\ outputs[3].to = "funding"

\* ---------------------------------------------------------------- C13
\* the signature hash of input k has been computed (or its computation tried)
SighashComputed(k) == inputs[k].sighashScripts # << >>

\* C13 (as claimed): in the taproot flow, with k >= 1 selected inputs, the
\* script list and the value list handed to the hash computation of each
\* input have exactly k entries, and entry j is the script and the value of
\* input j.
C13_SighashOverAllInputs ==
    flow = "p2tr" =>
        \A k \in 1..Len(inputs) :
            SighashComputed(k) =>
                /\ Len(inputs[k].sighashScripts) = Len(selectedUtxos)
                /\ Len(inputs[k].sighashValues) = Len(selectedUtxos)
                /\ \A j \in 1..Len(selectedUtxos) :
                       /\ inputs[k].sighashScripts[j] = inputs[j].script
                       /\ inputs[k].sighashValues[j] = inputs[j].value

\* ---------------------------------------------------------------- C14
SignedInputs == {k \in 1..Len(inputs) : inputs[k].signed}

\* the signing loop of the run has been left towards finalization
SigningLeft ==
    \/ pc \in {"finalize", "confirm", "broadcast", "w_validate", "w_finalize", "w_broadcast"}
    \/ txHex
    \/ err = "FinalizeError"

\* C14: in both flows the inputs are signed one at a time in ascending index
\* order (the signed inputs are exactly those below the loop index), no input
\* gets a second signature (at most one signature is produced per signed
\* input, plus one that ended the run before it was attached), finalization
\* is reached only with every input signed, and a transaction hex exists only
\* if no input lacks a signature
C14_SequentialSigning ==
    /\ \A k \in SignedInputs : \A j \in 1..k : j \in SignedInputs
    /\ pc \in {"sign", "w_sign"} => SignedInputs = 1..(i - 1)
    /\ sigsProduced \in {Cardinality(SignedInputs), Cardinality(SignedInputs) + 1}
    /\ sigsProduced <= Len(inputs)
    /\ sigsProduced > Cardinality(SignedInputs) =>
           pc = "done" /\ err \in {"SignError", "SignatureInvalid"}
    /\ SigningLeft => SignedInputs = 1..Len(inputs) /\ sigsProduced = Len(inputs)
    /\ txHex => CanFinalize

\* a transaction with three inputs was finalized after three signatures
C14_Witness ==
    /\ txHex /\ Len(inputs) = 3 /\ sigsProduced = 3 /\ SignedInputs = {1, 2, 3}

\* ---------------------------------------------------------------- C15
\* C15 (as claimed): in the witness-key-hash flow the input count the fee is
\* estimated for equals the number of inputs added to the transaction, in
\* every run, runs that skipped a fetched UTXO included, so the fee is the
\* one of a transaction with the inputs that were added.
C15_FeeCountsAddedInputs ==
    (flow = "p2wpkh" /\ FeeComputed) =>
        /\ WkhFeeInputCount = Len(inputs)
        /\ estimatedFee =
               WkhEstimatedFee(feeRate, WkhEstimatedSize(Len(inputs), nAddresses + 1))

\* ---------------------------------------------------------------- C16
\* C16: in the taproot flow broadcastTx is called at most once; it is called,
\* or about to be called, only with a finalized transaction and an answer
\* that is 'Y' once trimmed and upper-cased; a run that ended with any other
\* answer, or without an answer, has not broadcast; and the run has ended
\* exactly when the prompt interface has been closed
C16_ConfirmedBroadcastOnce ==
    flow = "p2tr" =>
        /\ calls["broadcast"] <= 1
        /\ (pc = "broadcast" \/ BroadcastInvoked) => (txHex /\ answer = <<"Y">>)
        /\ (RunEnded /\ answer # <<"Y">>) => ~BroadcastInvoked
        /\ (RunEnded /\ txHex /\ ~BroadcastInvoked) => (err = "none" /\ answer # <<"Y">>)
        /\ RunEnded <=> rlClosed

\* a taproot run broadcast its finalized transaction once, after the answer
\* Y, and closed the prompt interface
C16_Witness ==
    /\ flow = "p2tr" /\ RunEnded /\ txHex /\ answer = <<"Y">>
    /\ calls["broadcast"] = 1 /\ rlClosed

====
